---------------------------- MODULE Spec2Model ----------------------------
(***************************************************************************)
(* Model of testing-shiftjis/generate_test_data.py: the classifier         *)
(* (get_category and its helpers), the five enumeration passes of          *)
(* generate_test_data() and the emitter sequence of main().                *)
(*                                                                         *)
(* Text is modelled by what the program computes: a string of hex digits   *)
(* is a sequence of digit values 0..15, a Python str is a sequence of      *)
(* Unicode code points, a bytes object is a sequence of 0..255.            *)
(*                                                                         *)
(* The cp932 codec is the platform's, not the repository's: it is an       *)
(* environment.  Its table is nominal except on at most MaxFaults codes of *)
(* FaultSites (variable codec), where it refuses to decode, decodes to a   *)
(* character UTF-8 cannot encode, decodes to two characters, or decodes to *)
(* another character than the nominal one.                                 *)
(*                                                                         *)
(* The loops walk the ranges of the source restricted to the sample sets   *)
(* SampleSingle, SampleLead, SampleTrail (the range ends, the excluded     *)
(* codes, the problem codes' bytes, the private-use lead bytes); the       *)
(* classifier is checked separately on every 16-bit code.                  *)
(***************************************************************************)
EXTENDS Integers, Sequences, FiniteSets, TLC

VARIABLES
    pc,          \* position of the program: the running pass, emitter, or its end
    idx,         \* position of the running loop of passes 1-4 in its list
    hidx,        \* position of the outer loop of pass 5 (high)
    lidx,        \* position of the inner loop of pass 5 (low)
    data,        \* the table: list of rows
    id_counter,  \* next id
    stdout,      \* the error lines printed by the passes
    decoded,     \* the byte sequences handed to the legacy codec so far
    invoked,     \* the emitters main() has called
    files,       \* the output files written to their end
    codec,       \* environment: the codes on which cp932 is not nominal
    sjis_code,   \* classifier run: the argument of get_category
    category     \* classifier run: its result

vars == <<pc, idx, hidx, lidx, data, id_counter, stdout, decoded, invoked, files,
          codec, sjis_code, category>>

(***************************************************************************)
(* Bounds                                                                  *)
(***************************************************************************)
MaxFaults == 1

SampleSingle == {\h20, \h41, \h5B, \h5C, \h5D, \h7D, \h7E, \h7F, \hA1, \hDF}

SampleLead == {\h81, \h88, \h9F, \hE0, \hF0, \hF9, \hFC}

SampleTrail == {\h40, \h5C, \h7E, \h80, \h9F, \hCA}

(***************************************************************************)
(* Python builtins                                                         *)
(***************************************************************************)
\* range(a, b) as a list
Range(a, b) == [k \in 1..(b - a) |-> a + k - 1]

Restrict(s, S) == SelectSeq(s, LAMBDA c : c \in S)

SeqToSet(s) == {s[k] : k \in 1..Len(s)}

RECURSIVE ToHex(_)
ToHex(n) == IF n < 16 THEN <<n>> ELSE ToHex(n \div 16) \o <<n % 16>>

RECURSIVE ZeroPad(_, _)
ZeroPad(s, w) == IF Len(s) >= w THEN s ELSE ZeroPad(<<0>> \o s, w)

\* f'{n:0wX}'
FormatX(n, w) == ZeroPad(ToHex(n), w)

\* int(s, 16)
RECURSIVE FromHexUpTo(_, _)
FromHexUpTo(s, n) == IF n = 0 THEN 0 ELSE FromHexUpTo(s, n - 1) * 16 + s[n]

FromHex(s) == FromHexUpTo(s, Len(s))

\* bytes.hex().upper()
RECURSIVE BytesHex(_)
BytesHex(b) == IF b = <<>> THEN <<>> ELSE FormatX(Head(b), 2) \o BytesHex(Tail(b))

IsSurrogate(cp) == cp \in \hD800..\hDFFF

Utf8Char(cp) ==
    IF cp < \h80 THEN <<cp>>
    ELSE IF cp < \h800 THEN <<\hC0 + (cp \div 64), \h80 + (cp % 64)>>
    ELSE IF cp < \h10000
         THEN <<\hE0 + (cp \div 4096), \h80 + ((cp \div 64) % 64), \h80 + (cp % 64)>>
         ELSE <<\hF0 + (cp \div 262144), \h80 + ((cp \div 4096) % 64),
                \h80 + ((cp \div 64) % 64), \h80 + (cp % 64)>>

\* str.encode('utf-8'): raises UnicodeEncodeError on a lone surrogate
Utf8Encodable(chars) == \A k \in 1..Len(chars) : ~IsSurrogate(chars[k])

RECURSIVE Utf8Encode(_)
Utf8Encode(chars) ==
    IF chars = <<>> THEN <<>> ELSE Utf8Char(Head(chars)) \o Utf8Encode(Tail(chars))

\* chr(n), as the result of a decode that cannot fail
Chr(n) == [ok |-> TRUE, chars |-> <<n>>]

(***************************************************************************)
(* Classifier                                                              *)
(***************************************************************************)
HighOf(code) == (code \div 256) % 256

LowOf(code) == code % 256

sjis_to_row_col_no_carry(code) ==
    LET high == HighOf(code)
        low  == LowOf(code)
        row  == IF high <= \h9F THEN (high - \h81) * 2 + 1 ELSE (high - \hC1) * 2 + 1
    IN  IF low < \h7F THEN [row |-> row, col |-> low - \h40 + 1]
        ELSE [row |-> row, col |-> low - \h40]

sjis_to_row_col(code) ==
    LET high == HighOf(code)
        low  == LowOf(code)
        row  == IF high <= \h9F THEN (high - \h81) * 2 + 1 ELSE (high - \hC1) * 2 + 1
    IN  IF low < \h7F THEN [row |-> row, col |-> low - \h40 + 1]
        ELSE IF low <= \h9E THEN [row |-> row, col |-> low - \h40]
        ELSE [row |-> row + 1, col |-> low - \h9E]

is_valid_sjis_doublebyte(code) ==
    LET high == HighOf(code)
        low  == LowOf(code)
    IN  /\ (\h81 <= high /\ high <= \h9F) \/ (\hE0 <= high /\ high <= \hFC)
        /\ (\h40 <= low /\ low <= \h7E) \/ (\h80 <= low /\ low <= \hFC)

is_pua_character_never(code) == FALSE

is_pua_character(code) == \hF0 <= HighOf(code) /\ HighOf(code) <= \hF9

problem_chars == <<\h815C, \h8160, \h8161, \h817C, \h8191, \h8192, \h81CA>>

get_category_other_label(code) ==
    IF code = \h5C THEN "SPECIAL_SINGLE"
    ELSE IF code = \h7E THEN "SPECIAL_SINGLE"
    ELSE IF \h20 <= code /\ code <= \h7F THEN "ASCII"
    ELSE IF \hA1 <= code /\ code <= \hDF THEN "HALFWIDTH_KATAKANA"
    ELSE IF code > \hFF
    THEN IF code \in {\h815C, \h8160, \h8161, \h817C, \h8191, \h8192, \h81CA}
         THEN "PROBLEM"
         ELSE LET row == sjis_to_row_col(code).row
              IN  IF 1 <= row /\ row <= 2 THEN "PUNCTUATION"
                  ELSE IF row = 3 THEN "ALPHANUMERIC"
                  ELSE IF row = 4 THEN "HIRAGANA_FULLWIDTH"
                  ELSE IF row = 5 THEN "KATAKANA_FULLWIDTH"
                  ELSE IF row = 6 THEN "GREEK"
                  ELSE IF row = 7 THEN "CYRILLIC"
                  ELSE IF row = 8 THEN "BOX_DRAWING"
                  ELSE IF 16 <= row /\ row <= 47 THEN "KANJI_LEVEL1"
                  ELSE IF 48 <= row /\ row <= 84 THEN "KANJI_LEVEL2"
                  ELSE "OTHER"
    ELSE "OTHER"

get_category(code) ==
    IF code = \h5C THEN "SPECIAL_SINGLE"
    ELSE IF code = \h7E THEN "SPECIAL_SINGLE"
    ELSE IF \h20 <= code /\ code <= \h7F THEN "ASCII"
    ELSE IF \hA1 <= code /\ code <= \hDF THEN "KATAKANA_HALFWIDTH"
    ELSE IF code > \hFF
    THEN IF code \in {\h815C, \h8160, \h8161, \h817C, \h8191, \h8192, \h81CA}
         THEN "PROBLEM"
         ELSE LET row == sjis_to_row_col(code).row
              IN  IF 1 <= row /\ row <= 2 THEN "PUNCTUATION"
                  ELSE IF row = 3 THEN "ALPHANUMERIC"
                  ELSE IF row = 4 THEN "HIRAGANA_FULLWIDTH"
                  ELSE IF row = 5 THEN "KATAKANA_FULLWIDTH"
                  ELSE IF row = 6 THEN "GREEK"
                  ELSE IF row = 7 THEN "CYRILLIC"
                  ELSE IF row = 8 THEN "BOX_DRAWING"
                  ELSE IF 16 <= row /\ row <= 47 THEN "KANJI_LEVEL1"
                  ELSE IF 48 <= row /\ row <= 84 THEN "KANJI_LEVEL2"
                  ELSE "OTHER"
    ELSE "OTHER"

\* descriptions[sjis_code], else category_names.get(category, "Other character")
get_description(code, char, cat) ==
    CASE code = \h5C   -> "YEN SIGN / BACKSLASH"
      [] code = \h7E   -> "OVERLINE / TILDE"
      [] code = \h815C -> "EM DASH"
      [] code = \h8160 -> "WAVE DASH / FULLWIDTH TILDE"
      [] code = \h8161 -> "DOUBLE VERTICAL LINE"
      [] code = \h817C -> "MINUS SIGN / FULLWIDTH HYPHEN-MINUS"
      [] code = \h8191 -> "CENT SIGN"
      [] code = \h8192 -> "POUND SIGN"
      [] code = \h81CA -> "NOT SIGN"
      [] OTHER ->
            CASE cat = "ASCII" -> "ASCII character"
              [] cat = "KATAKANA_HALFWIDTH" ->
                    "Halfwidth Katakana (SJIS:0xA1-0xDF U+FF61-FF9F)"
              [] cat = "PUNCTUATION" -> "Punctuation/Symbol"
              [] cat = "ALPHANUMERIC" -> "Fullwidth Alphanumeric"
              [] cat = "HIRAGANA_FULLWIDTH" ->
                    "Fullwidth Hiragana (SJIS:0x829F-0x82F1 U+3041-3093)"
              [] cat = "KATAKANA_FULLWIDTH" ->
                    "Fullwidth Katakana (SJIS:0x8340-0x8396 U+30A1-30F6)"
              [] cat = "GREEK" -> "Greek letter"
              [] cat = "CYRILLIC" -> "Cyrillic letter"
              [] cat = "BOX_DRAWING" -> "Box drawing character"
              [] cat = "KANJI_LEVEL1" -> "JIS Level 1 Kanji"
              [] cat = "KANJI_LEVEL2" -> "JIS Level 2 Kanji"
              [] OTHER -> "Other character"

(***************************************************************************)
(* The legacy codec (environment)                                          *)
(***************************************************************************)
FaultKinds == {"undecodable", "unencodable", "two_chars", "remapped"}

\* bytes([...]) read back as the code it spells
BytesToCode(b) == IF Len(b) = 1 THEN b[1] ELSE b[1] * 256 + b[2]

\* cp932 where it is nominal: ASCII bytes decode to themselves, 0xA1-0xDF to
\* U+FF61-FF9F, a structurally valid byte pair to one character of the Basic
\* Multilingual Plane (a placeholder for the table's entry); anything else is
\* a UnicodeDecodeError
NominalDecode(b) ==
    LET code == BytesToCode(b)
    IN  IF Len(b) = 1
        THEN IF code < \h80 THEN Chr(code)
             ELSE IF \hA1 <= code /\ code <= \hDF THEN Chr(\hFF61 + (code - \hA1))
             ELSE [ok |-> FALSE, chars |-> <<>>]
        ELSE IF is_valid_sjis_doublebyte(code)
             THEN Chr(\h3000 + (code - \h8140))
             ELSE [ok |-> FALSE, chars |-> <<>>]

\* bytes.decode(SJIS_ENCODING) under the codec table cdc
Decode(cdc, b) ==
    LET code == BytesToCode(b)
        nom  == NominalDecode(b)
    IN  IF code \notin DOMAIN cdc \/ ~nom.ok THEN nom
        ELSE IF cdc[code] = "undecodable" THEN [ok |-> FALSE, chars |-> <<>>]
        ELSE IF cdc[code] = "unencodable" THEN Chr(\hD800)
        ELSE IF cdc[code] = "two_chars" THEN [ok |-> TRUE, chars |-> <<\h3F, \h3F>>]
        ELSE Chr(\hA5)

SjisDecode(b) == Decode(codec, b)

(***************************************************************************)
(* Enumerator: the lists the five passes walk                              *)
(***************************************************************************)
special_single == <<\h5C, \h7E>>

pass3_excluded_del_only == {\h7F}

pass3_excluded == {\h5C, \h7E, \h7F}

pass3_range == Restrict(Range(\h20, \h80), SampleSingle)

pass4_range == Restrict(Range(\hA1, \hE0), SampleSingle)

high_range_extended_first ==
    Restrict(Range(\hE0, \hFD) \o Range(\h81, \hA0), SampleLead)

high_range == Restrict(Range(\h81, \hA0) \o Range(\hE0, \hFD), SampleLead)

low_range == Restrict(Range(\h40, \h7F) \o Range(\h80, \hFD), SampleTrail)

processed_problem_empty == {}

processed_problem == SeqToSet(problem_chars)

\* the codes on which the environment may make the codec deviate: the first and
\* the last code of each pass, codes of both lead-byte blocks, the code after a
\* skipped problem code, a Level-1 kanji code and a private-use code
FaultSites ==
    {\h815C, \h81CA, \h5C, \h7E, \h20, \h7D, \hA1, \hDF,
     \h8140, \h817E, \h889F, \hE040, \hF040, \hFCCA}

RECURSIVE FaultSets(_)
FaultSets(k) ==
    IF k = 0 THEN {{}}
    ELSE LET P == FaultSets(k - 1) IN P \cup { S \cup {c} : S \in P, c \in FaultSites }

Codecs == UNION { [S -> FaultKinds] : S \in FaultSets(MaxFaults) }

(***************************************************************************)
(* Enumerator: the body of one iteration                                   *)
(***************************************************************************)
\* bytes([(sjis_code >> 8) & 0xFF, sjis_code & 0xFF])
DoubleBytes(code) == <<HighOf(code), LowOf(code)>>

\* bytes([sjis_code])
SingleByte(code) == <<code>>

DecodeSingleAsChr(code) == Chr(code)

\* passes 2 and 4: bytes([sjis_code]).decode(SJIS_ENCODING)
DecodeSingle(code) == SjisDecode(SingleByte(code))

\* passes 1 and 5
DecodeDouble(code) == SjisDecode(DoubleBytes(code))

\* The try block: from the decoded text to the row, or to the exception that
\* leaves the block before data.append.  ord(char) raises TypeError unless char
\* is one character.  The 'unicode' column is kept without its "U+" prefix.
TryRow(id, code, dec, width, cat) ==
    IF ~dec.ok THEN [exc |-> "UnicodeDecodeError"]
    ELSE IF ~Utf8Encodable(dec.chars) THEN [exc |-> "UnicodeEncodeError"]
    ELSE IF Len(dec.chars) # 1 THEN [exc |-> "TypeError"]
    ELSE [exc |-> "none",
          row |-> [id        |-> id,
                   sjis_hex  |-> FormatX(code, width),
                   char      |-> dec.chars,
                   utf8_hex  |-> BytesHex(Utf8Encode(dec.chars)),
                   unicode   |-> FormatX(dec.chars[1], 4),
                   category  |-> cat,
                   description      |-> get_description(code, dec.chars, cat),
                   description_sjis |-> get_description(code, dec.chars, cat)]]

NextIdStale(id) == id

\* id_counter += 1
NextId(id) == id + 1

\* except Exception as e: print(f"Error processing <what> 0x{sjis_code:0wX}: {e}")
ErrorLine(what, code, width, exc) ==
    [what |-> what, code |-> FormatX(code, width), exc |-> exc]

LoggedIterationCounting(t, what, code, width) ==
    /\ id_counter' = NextId(id_counter)
    /\ IF t.exc = "none"
       THEN data' = Append(data, t.row) /\ stdout' = stdout
       ELSE stdout' = Append(stdout, ErrorLine(what, code, width, t.exc)) /\ data' = data

\* passes 1-4: the row is appended and the counter advanced, or the exception
\* is printed
LoggedIteration(t, what, code, width) ==
    IF t.exc = "none"
    THEN /\ data' = Append(data, t.row)
         /\ id_counter' = NextId(id_counter)
         /\ stdout' = stdout
    ELSE /\ stdout' = Append(stdout, ErrorLine(what, code, width, t.exc))
         /\ UNCHANGED <<data, id_counter>>

\* pass 5: both except clauses are 'pass'
SilentIteration(t) ==
    IF t.exc = "none"
    THEN /\ data' = Append(data, t.row)
         /\ id_counter' = NextId(id_counter)
         /\ stdout' = stdout
    ELSE UNCHANGED <<data, id_counter, stdout>>

(***************************************************************************)
(* State machine                                                           *)
(***************************************************************************)
Passes == {"pass1", "pass2", "pass3", "pass4", "pass5"}

Emitters == <<"write_csv_utf8", "write_csv_sjis", "write_html_utf8",
              "write_html_sjis", "write_expected_utf8">>

OutputFile(e) ==
    CASE e = "write_csv_utf8"      -> "test_data.csv"
      [] e = "write_csv_sjis"      -> "test_data_sjis.csv"
      [] e = "write_html_utf8"     -> "verify_utf8.html"
      [] e = "write_html_sjis"     -> "verify_sjis.html"
      [] e = "write_expected_utf8" -> "expected_utf8.csv"

\* main() up to the first iteration of generate_test_data()
Init ==
    /\ pc = "pass1"
    /\ idx = 1
    /\ hidx = 1
    /\ lidx = 1
    /\ data = <<>>
    /\ id_counter = 1
    /\ stdout = <<>>
    /\ decoded = {}
    /\ invoked = {}
    /\ files = {}
    /\ codec \in Codecs
    /\ sjis_code = 0
    /\ category = ""

\* the for statement of passes 1-4: the next element, or the next pass
ForNext(list, next) ==
    IF idx < Len(list)
    THEN idx' = idx + 1 /\ pc' = pc
    ELSE idx' = 1 /\ pc' = next

Pass1Step ==
    /\ pc = "pass1"
    /\ LET code == problem_chars[idx]
       IN  /\ decoded' = decoded \cup {DoubleBytes(code)}
           /\ LoggedIteration(TryRow(id_counter, code, DecodeDouble(code), 4, "PROBLEM"),
                              "problem char", code, 4)
    /\ ForNext(problem_chars, "pass2")
    /\ UNCHANGED <<hidx, lidx, invoked, files, codec, sjis_code, category>>

Pass2Step ==
    /\ pc = "pass2"
    /\ LET code == special_single[idx]
       IN  /\ decoded' = decoded \cup {SingleByte(code)}
           /\ LoggedIteration(TryRow(id_counter, code, DecodeSingle(code), 2,
                                     "SPECIAL_SINGLE"),
                              "single byte", code, 2)
    /\ ForNext(special_single, "pass3")
    /\ UNCHANGED <<hidx, lidx, invoked, files, codec, sjis_code, category>>

Pass3Step ==
    /\ pc = "pass3"
    /\ LET code == pass3_range[idx]
       IN  IF code \in pass3_excluded
           THEN UNCHANGED <<data, id_counter, stdout>>
           ELSE LoggedIteration(TryRow(id_counter, code, Chr(code), 2, "ASCII"),
                                "ASCII", code, 2)
    /\ ForNext(pass3_range, "pass4")
    /\ UNCHANGED <<hidx, lidx, decoded, invoked, files, codec, sjis_code, category>>

Pass4Step ==
    /\ pc = "pass4"
    /\ LET code == pass4_range[idx]
       IN  /\ decoded' = decoded \cup {SingleByte(code)}
           /\ LoggedIteration(TryRow(id_counter, code, DecodeSingle(code), 2,
                                     "KATAKANA_HALFWIDTH"),
                              "halfwidth katakana", code, 2)
    /\ ForNext(pass4_range, "pass5")
    /\ UNCHANGED <<hidx, lidx, invoked, files, codec, sjis_code, category>>

\* one iteration of the inner loop of pass 5; after the last one
\* generate_test_data() returns and main() goes on to its first emitter
Pass5Step ==
    /\ pc = "pass5"
    /\ LET high == high_range[hidx]
           low  == low_range[lidx]
           code == high * 256 + low
       IN  IF \/ code \in processed_problem
              \/ ~is_valid_sjis_doublebyte(code)
              \/ is_pua_character(code)
           THEN UNCHANGED <<data, id_counter, stdout, decoded>>
           ELSE /\ decoded' = decoded \cup {<<high, low>>}
                /\ SilentIteration(TryRow(id_counter, code, SjisDecode(<<high, low>>), 4,
                                          get_category(code)))
    /\ IF lidx < Len(low_range)
       THEN lidx' = lidx + 1 /\ hidx' = hidx /\ pc' = pc
       ELSE IF hidx < Len(high_range)
            THEN lidx' = 1 /\ hidx' = hidx + 1 /\ pc' = pc
            ELSE lidx' = 1 /\ hidx' = 1 /\ pc' = Emitters[1]
    /\ UNCHANGED <<idx, invoked, files, codec, sjis_code, category>>

\* what follows emitter number n in main() when it returns
AfterEmitter(n) == IF n < Len(Emitters) THEN Emitters[n + 1] ELSE "print_summary"

AfterEmitterContained(n, ok) == AfterEmitter(n)

\* main() has no try around its calls: an emitter that raises ends the run
AfterEmitterCall(n, ok) == IF ok THEN AfterEmitter(n) ELSE "raised"

\* One emitter call of main(): the file is written to its end, or the emitter
\* raises (the directory is not writable, the disk is full, ...).  The emitters
\* only read data; of their output the model keeps which files are complete.
Emit(n) ==
    /\ pc = Emitters[n]
    /\ invoked' = invoked \cup {Emitters[n]}
    /\ \E ok \in BOOLEAN :
          /\ files' = IF ok THEN files \cup {OutputFile(Emitters[n])} ELSE files
          /\ pc' = AfterEmitterCall(n, ok)
    /\ UNCHANGED <<idx, hidx, lidx, data, id_counter, stdout, decoded, codec,
                   sjis_code, category>>

WriteCsvUtf8 == Emit(1)

WriteCsvSjis == Emit(2)

WriteHtmlUtf8 == Emit(3)

WriteHtmlSjis == Emit(4)

WriteExpectedUtf8 == Emit(5)

PrintSummary ==
    /\ pc = "print_summary"
    /\ pc' = "done"
    /\ UNCHANGED <<idx, hidx, lidx, data, id_counter, stdout, decoded, invoked, files,
                   codec, sjis_code, category>>

Next ==
    \/ Pass1Step
    \/ Pass2Step
    \/ Pass3Step
    \/ Pass4Step
    \/ Pass5Step
    \/ WriteCsvUtf8
    \/ WriteCsvSjis
    \/ WriteHtmlUtf8
    \/ WriteHtmlSjis
    \/ WriteExpectedUtf8
    \/ PrintSummary

Spec == Init /\ [][Next]_vars

(***************************************************************************)
(* The classifier alone, on every 16-bit code                              *)
(***************************************************************************)
InitClassify ==
    /\ pc = "get_category"
    /\ sjis_code \in 0..\hFFFF
    /\ category = ""
    /\ idx = 1
    /\ hidx = 1
    /\ lidx = 1
    /\ data = <<>>
    /\ id_counter = 1
    /\ stdout = <<>>
    /\ decoded = {}
    /\ invoked = {}
    /\ files = {}
    /\ codec = << >>

Classify ==
    /\ pc = "get_category"
    /\ category' = get_category(sjis_code)
    /\ pc' = "returned"
    /\ UNCHANGED <<idx, hidx, lidx, data, id_counter, stdout, decoded, invoked, files,
                   codec, sjis_code>>

NextClassify == Classify

SpecClassify == InitClassify /\ [][NextClassify]_vars

(***************************************************************************)
(* Vocabulary of the properties                                            *)
(***************************************************************************)
Rows == 1..Len(data)

\* the legacy code a row stands for, read back from its sjis_hex column
LegacyCode(row) == FromHex(row.sjis_hex)

\* the bytes of that code: one byte for a 2-digit column, two for a 4-digit one
LegacyBytes(row) ==
    IF Len(row.sjis_hex) = 2 THEN SingleByte(LegacyCode(row))
    ELSE DoubleBytes(LegacyCode(row))

\* generate_test_data() has returned
Finished == pc \notin Passes

ProblemSet == {\h815C, \h8160, \h8161, \h817C, \h8191, \h8192, \h81CA}

SpecialSet == {\h5C, \h7E}

Categories ==
    {"PROBLEM", "SPECIAL_SINGLE", "ASCII", "KATAKANA_HALFWIDTH", "PUNCTUATION",
     "ALPHANUMERIC", "HIRAGANA_FULLWIDTH", "KATAKANA_FULLWIDTH", "GREEK", "CYRILLIC",
     "BOX_DRAWING", "KANJI_LEVEL1", "KANJI_LEVEL2", "OTHER"}

\* the pass that takes up a code
PassOfCode(c) ==
    IF c \in ProblemSet THEN 1
    ELSE IF c \in SpecialSet THEN 2
    ELSE IF \h20 <= c /\ c <= \h7F THEN 3
    ELSE IF \hA1 <= c /\ c <= \hDF THEN 4
    ELSE 5

\* both codec steps succeed on the bytes b
RoundTrips(b) ==
    LET dec == SjisDecode(b) IN dec.ok /\ Utf8Encodable(dec.chars)

\* the codec steps succeed on b and give one character
Converts(b) ==
    LET dec == SjisDecode(b) IN dec.ok /\ Utf8Encodable(dec.chars) /\ Len(dec.chars) = 1

\* the row's utf8_hex is what decoding its code and re-encoding gives
RoundTripRow(row) ==
    LET dec == SjisDecode(LegacyBytes(row))
    IN  /\ dec.ok
        /\ Utf8Encodable(dec.chars)
        /\ row.utf8_hex = BytesHex(Utf8Encode(dec.chars))

\* the legacy codes of the table
TableCodes == { LegacyCode(data[k]) : k \in Rows }

HasRow(c) == \E k \in Rows : LegacyCode(data[k]) = c

(***************************************************************************)
(* C1                                                                      *)
(***************************************************************************)
\* C1: once generate_test_data() has returned, whatever the codec did, the
\* k-th row of the table has id k: the ids are exactly 1..N, N the table size.
C1_IdsContiguous ==
    Finished => \A k \in Rows : data[k].id = k

\* a problem code was dropped by the codec and the table went on after it
C1_Witness ==
    /\ pc = "done"
    /\ \E c \in DOMAIN codec : c \in ProblemSet /\ ~HasRow(c)
    /\ Len(data) > 10

(***************************************************************************)
(* C2                                                                      *)
(***************************************************************************)
\* C2: no two rows of the table built by generate_test_data() have the same
\* legacy code.
C2_NoDuplicateCode ==
    Finished => Cardinality({ LegacyCode(data[k]) : k \in Rows }) = Len(data)

\* pass 1 emitted 0x815C and pass 5 walked lead byte 0x81 past trail byte 0x5C
C2_Witness ==
    /\ Finished
    /\ HasRow(\h815C)
    /\ HasRow(\h8140)
    /\ HasRow(\h817E)

CategoriesRight ==
    \A k \in Rows :
        LET code == LegacyCode(data[k])
        IN  /\ data[k].category \in Categories
            /\ code \in ProblemSet => data[k].category = "PROBLEM"
            /\ code \in SpecialSet => data[k].category = "SPECIAL_SINGLE"

IsPuaLead(b) == \hF0 <= b /\ b <= \hF9

\* C5: no row has a legacy code with lead byte 0xF0..0xF9, and no byte pair
\* with such a lead byte is ever handed to the legacy codec.
C5_NoPrivateUse ==
    /\ \A k \in Rows : ~IsPuaLead(HighOf(LegacyCode(data[k])))
    /\ \A b \in decoded : Len(b) = 2 => ~IsPuaLead(b[1])

\* pass 5 is past the private-use lead bytes and has rows of the lead byte after
C5_Witness ==
    /\ Finished
    /\ HasRow(\hE040)
    /\ HasRow(\hFC40)

(***************************************************************************)
(* C6                                                                      *)
(***************************************************************************)
FourEmitters == {"write_csv_utf8", "write_csv_sjis", "write_html_utf8", "write_html_sjis"}

\* emitter number n was called and did not write its file to the end
EmitterFailed(n) == Emitters[n] \in invoked /\ OutputFile(Emitters[n]) \notin files

\* C6 as stated: when main() has ended, normally or by an emitter's failure,
\* each of the four emitters has been invoked.
C6_EmittersIndependent ==
    pc \in {"done", "raised"} => FourEmitters \subseteq invoked

\* C6 amended: main() calls the emitters one after the other with no handler:
\* an emitter is invoked only after every emitter before it has written its
\* file to the end, and when one fails main() ends there, no later emitter
\* being invoked.
C6_FailureEndsMain ==
    \A n \in 1..Len(Emitters) :
        /\ Emitters[n] \in invoked =>
              \A m \in 1..(n - 1) :
                  Emitters[m] \in invoked /\ OutputFile(Emitters[m]) \in files
        /\ EmitterFailed(n) =>
              /\ pc = "raised"
              /\ \A m \in (n + 1)..Len(Emitters) : Emitters[m] \notin invoked

\* write_html_utf8 failed after the two CSV emitters had written their files
C6_Witness ==
    /\ pc = "raised"
    /\ EmitterFailed(3)
    /\ files = {"test_data.csv", "test_data_sjis.csv"}

(***************************************************************************)
(* C7, C8                                                                  *)
(***************************************************************************)
\* the code the running iteration is about
CurrentCode ==
    CASE pc = "pass1" -> problem_chars[idx]
      [] pc = "pass2" -> special_single[idx]
      [] pc = "pass3" -> pass3_range[idx]
      [] pc = "pass4" -> pass4_range[idx]
      [] pc = "pass5" -> high_range[hidx] * 256 + low_range[lidx]

CurrentWidth == IF pc \in {"pass1", "pass5"} THEN 4 ELSE 2

CurrentBytes ==
    IF pc \in {"pass1", "pass5"} THEN DoubleBytes(CurrentCode) ELSE SingleByte(CurrentCode)

\* the running iteration takes its code up (no 'continue' skips it)
Taken ==
    /\ pc \in Passes
    /\ pc = "pass3" => CurrentCode \notin {\h5C, \h7E, \h7F}
    /\ pc = "pass5" =>
          /\ CurrentCode \notin ProblemSet
          /\ ~IsPuaLead(HighOf(CurrentCode))

\* what the running iteration decodes its code to (pass 3 takes chr(code))
CurrentDecode ==
    IF pc = "pass3" THEN Chr(CurrentCode) ELSE SjisDecode(CurrentBytes)

\* the running iteration's code fails to decode, or its text to re-encode
CodecFails ==
    Taken /\ (~CurrentDecode.ok \/ ~Utf8Encodable(CurrentDecode.chars))

\* the codec steps succeed and ord(char) raises: a failure of another kind
OtherFails ==
    /\ Taken
    /\ CurrentDecode.ok
    /\ Utf8Encodable(CurrentDecode.chars)
    /\ Len(CurrentDecode.chars) # 1

\* the enumeration goes on: the loops move to their next position
GoesOn ==
    /\ pc' \in Passes \cup {Emitters[1]}
    /\ <<pc, idx, hidx, lidx>>' # <<pc, idx, hidx, lidx>>

\* one error line was printed, for the running code and the exception exc
Reported(exc) ==
    /\ Len(stdout') = Len(stdout) + 1
    /\ SubSeq(stdout', 1, Len(stdout)) = stdout
    /\ stdout'[Len(stdout')].code = FormatX(CurrentCode, CurrentWidth)
    /\ stdout'[Len(stdout')].exc = exc

\* C7 as stated: in each of the five passes a code that fails to decode or to
\* re-encode gets no row, leaves the id counter alone, prints nothing, and the
\* enumeration goes on.
C7_CodecFailureSilent ==
    [][CodecFails => /\ data' = data
                     /\ id_counter' = id_counter
                     /\ stdout' = stdout
                     /\ GoesOn]_vars

\* C7 amended: in each pass a code that fails to decode or to re-encode gets no
\* row, leaves the id counter alone, and the enumeration goes on; pass 5 prints
\* nothing, passes 1 to 4 print one error line with the code.
C7_CodecFailureSkipped ==
    [][CodecFails =>
          /\ data' = data
          /\ id_counter' = id_counter
          /\ GoesOn
          /\ IF pc = "pass5" THEN stdout' = stdout
             ELSE \/ Reported("UnicodeDecodeError")
                  \/ Reported("UnicodeEncodeError")]_vars

\* 0xDF failed in pass 4: one line printed, no row, and pass 5 added its rows
C7_Witness ==
    /\ pc = "done"
    /\ Len(stdout) = 1
    /\ stdout[1].code = <<13, 15>>
    /\ stdout[1].exc \in {"UnicodeDecodeError", "UnicodeEncodeError"}
    /\ ~HasRow(\hDF)
    /\ HasRow(\hFC40)

\* C8: in every pass a failure that is neither a decode nor a re-encode failure
\* is printed with the code, and the enumeration goes on.
C8_OtherFailureReported ==
    [][OtherFails => Reported("TypeError") /\ GoesOn]_vars

(***************************************************************************)
(* C9                                                                      *)
(***************************************************************************)
\* position of a problem code in the literal list of pass 1
ProblemRank(c) == CHOOSE n \in 1..Len(problem_chars) : problem_chars[n] = c

\* row i is emitted before row j in the five-pass order
EmittedBefore(ci, cj) ==
    \/ PassOfCode(ci) < PassOfCode(cj)
    \/ /\ PassOfCode(ci) = PassOfCode(cj)
       /\ IF PassOfCode(ci) = 1 THEN ProblemRank(ci) < ProblemRank(cj)
          ELSE IF PassOfCode(ci) = 5
               THEN \/ HighOf(ci) < HighOf(cj)
                    \/ HighOf(ci) = HighOf(cj) /\ LowOf(ci) < LowOf(cj)
               ELSE ci < cj

\* C9: the table follows the five-pass order: a row of an earlier pass comes
\* before (has a smaller id than) a row of a later pass; within pass 1 the
\* literal order, within passes 2-4 ascending code, within pass 5 ascending
\* lead byte and then ascending trail byte.
C9_EmissionOrder ==
    Finished =>
        \A k \in 1..(Len(data) - 1) :
            LET ci == LegacyCode(data[k])
                cj == LegacyCode(data[k + 1])
            IN  data[k].id < data[k + 1].id /\ EmittedBefore(ci, cj)

\* rows of all five passes and of both lead-byte blocks
C9_Witness ==
    /\ pc = "done"
    /\ HasRow(\h81CA) /\ HasRow(\h7E) /\ HasRow(\h7D) /\ HasRow(\hDF)
    /\ HasRow(\h9FCA) /\ HasRow(\hE040)

(***************************************************************************)
(* C10                                                                     *)
(***************************************************************************)
\* the JIS row as the claim gives it
ClaimedRow(c) ==
    (IF HighOf(c) <= \h9F THEN (HighOf(c) - \h81) * 2 + 1 ELSE (HighOf(c) - \hC1) * 2 + 1)
        + (IF LowOf(c) >= \h9F THEN 1 ELSE 0)

ClaimedBand(row) ==
    CASE row \in 1..2   -> "PUNCTUATION"
      [] row = 3        -> "ALPHANUMERIC"
      [] row = 4        -> "HIRAGANA_FULLWIDTH"
      [] row = 5        -> "KATAKANA_FULLWIDTH"
      [] row = 6        -> "GREEK"
      [] row = 7        -> "CYRILLIC"
      [] row = 8        -> "BOX_DRAWING"
      [] row \in 16..47 -> "KANJI_LEVEL1"
      [] row \in 48..84 -> "KANJI_LEVEL2"
      [] OTHER          -> "OTHER"

\* C10: for a structurally valid double-byte code that is no problem code,
\* get_category returns the band of its JIS row; 0x889F is KANJI_LEVEL1 and
\* 0x989F KANJI_LEVEL2.
C10_CategoryIsRowBand ==
    pc = "returned" =>
        /\ is_valid_sjis_doublebyte(sjis_code) /\ sjis_code \notin ProblemSet
              => category = ClaimedBand(ClaimedRow(sjis_code))
        /\ sjis_code = \h889F => category = "KANJI_LEVEL1"
        /\ sjis_code = \h989F => category = "KANJI_LEVEL2"

\* get_category has classified the first code of row 48
C10_Witness ==
    pc = "returned" /\ sjis_code = \h989F /\ category = "KANJI_LEVEL2"

(***************************************************************************)
(* C11                                                                     *)
(***************************************************************************)
\* C11: every row's category is what get_category returns for the row's
\* legacy code: the literals of passes 1 to 4 (PROBLEM, SPECIAL_SINGLE, ASCII,
\* KATAKANA_HALFWIDTH) agree with the classifier on every code those passes
\* emit, so the table is as if get_category had been called for every row.
C11_CategoryIsClassifiers ==
    Finished =>
        \A k \in Rows : data[k].category = get_category(LegacyCode(data[k]))

\* the table holds rows of the four literal passes and of pass 5
C11_Witness ==
    /\ pc = "done"
    /\ \E k \in Rows : LegacyCode(data[k]) = \h8160 /\ data[k].category = "PROBLEM"
    /\ \E k \in Rows : LegacyCode(data[k]) = \h7E /\ data[k].category = "SPECIAL_SINGLE"
    /\ \E k \in Rows : LegacyCode(data[k]) = \h7D /\ data[k].category = "ASCII"
    /\ \E k \in Rows :
          LegacyCode(data[k]) = \hDF /\ data[k].category = "KATAKANA_HALFWIDTH"
    /\ \E k \in Rows : LegacyCode(data[k]) = \h889F /\ data[k].category = "KANJI_LEVEL1"

====
